---- MODULE Spec2Model ----
(***************************************************************************)
(* POST /api/interview of the mock-interview backend.                      *)
(*                                                                         *)
(* The repository holds six copies of the route handler:                   *)
(*   S1  src/server.js          lines   68..157                            *)
(*   S2  src/server.js          lines  244..325                            *)
(*   P0  src/unnamed/part_000   lines   83..162                            *)
(*   P1  src/unnamed/part_001   lines  139..264                            *)
(*   P2  src/unnamed/part_002   lines   83..169                            *)
(*   P3  src/unnamed/part_003   lines   76..154                            *)
(* A behaviour runs one of them (variable server) against one ChatSession  *)
(* collection.  A request is a slot; its steps are the handler's code      *)
(* between two awaits: findOne, sendMessageStream (with the stream) and    *)
(* save.  Steps of different requests interleave.                          *)
(*                                                                         *)
(* JavaScript values: a string is a TLA+ string; undefined and null are    *)
(* the two tokens below, which no request text equals.                     *)
(***************************************************************************)
EXTENDS Integers, Sequences, FiniteSets, TLC

Undefined == "<undefined>"
Null == "<null>"

\* !v for the values a request field can hold
Falsy(v) == v \in {Undefined, Null, ""}

\* a || b
OrElse(a, b) == IF Falsy(a) THEN b ELSE a

\* String(v), as `+=` converts its right operand
ToText(v) == IF v = Undefined THEN "undefined" ELSE IF v = Null THEN "null" ELSE v

Servers == {"S1", "S2", "P0", "P1", "P2", "P3"}

(***************************************************************************)
(* Bounds                                                                  *)
(***************************************************************************)
\* requests received in one behaviour
MaxRequests == 2
\* chunks of one streamed reply
MaxChunks == 2
\* turns of a history handed to the formatter
MaxTurns == 3

Slots == {"r1", "r2"}
UserTexts == {"", "start interview", "start a mock interview"}

\* now is the clock: what Date.now() returns.  streamed is the stream the
\* backend resolved the last consumed call with; the specification of the
\* stream (StreamSpec), which draws streams of every shape, keeps it.
VARIABLES server, db, req, received, now, streamed

vars == <<server, db, req, received, now, streamed>>

(***************************************************************************)
(* Data                                                                    *)
(***************************************************************************)
\* req.body of a request
Body(sid, jt, ur) == [sessionId |-> sid, jobTitle |-> jt, userResponse |-> ur]

\* Bodies the model sends: session s1 with every text, and with the other job
\* title; one body for session s2; and one body for each way a field can be
\* missing, empty or null.
Bodies ==
    {Body("s1", "Engineer", ur) : ur \in UserTexts}
    \cup {Body("s1", "Designer", "start a mock interview")}
    \cup {Body("s2", "Designer", "")}
    \cup {Body(sid, "Engineer", "start interview") : sid \in {Undefined, ""}}
    \cup {Body("s1", jt, "start interview") : jt \in {Undefined, ""}}
    \cup {Body("s1", "Engineer", ur) : ur \in {Undefined, Null}}

\* The history schema: an array of sub-documents {role, text, timestamp} with
\* timestamp defaulting to Date.now (S1, P1), or a plain Array (the others).
SubdocHistory(s) == s \in {"S1", "P1"}

\* history.push({role, text}) as the schema of server s stores the entry
Turn(s, role, text) ==
    [role |-> role, text |-> text,
     timestamp |-> IF SubdocHistory(s) THEN "Date.now" ELSE Undefined]

\* A Date path that holds no value
NoDate == -1

\* A document of the collection, and the in-memory chatSession of a request.
\* persisted counts the history entries the document had when it was loaded
\* (0 for a new one); jobTitleSet says that jobTitle was assigned a new value,
\* updatedAtSet that updatedAt was assigned.
NullDoc ==
    [sessionId |-> Null, jobTitle |-> Null, history |-> <<>>,
     createdAt |-> NoDate, updatedAt |-> NoDate,
     isNew |-> FALSE, persisted |-> 0, jobTitleSet |-> FALSE, updatedAtSet |-> FALSE]

\* new ChatSession({ sessionId, jobTitle, history: [] }), before the defaults
NewChatSession(sid, jt) ==
    [sessionId |-> sid, jobTitle |-> jt, history |-> <<>>,
     createdAt |-> NoDate, updatedAt |-> NoDate,
     isNew |-> TRUE, persisted |-> 0, jobTitleSet |-> FALSE, updatedAtSet |-> FALSE]

\* The schema has an updatedAt path (all but S1)
HasUpdatedAt(s) == s # "S1"

\* The defaults the constructor gives a new document at time t:
\* createdAt: Date.now, and updatedAt: Date.now where the schema has the path
WithDefaults(s, doc, t) ==
    IF doc.isNew
    THEN [doc EXCEPT !.createdAt = t, !.updatedAt = IF HasUpdatedAt(s) THEN t ELSE NoDate]
    ELSE doc

\* pre('save') at time t: P1 assigns this.updatedAt = Date.now(); the other
\* schemas have no hook
PreSave(s, doc, t) ==
    IF s = "P1" THEN [doc EXCEPT !.updatedAt = t, !.updatedAtSet = TRUE] ELSE doc

\* What the collection keeps of a document
Stored(doc) ==
    [sessionId |-> doc.sessionId, jobTitle |-> doc.jobTitle, history |-> doc.history,
     createdAt |-> doc.createdAt, updatedAt |-> doc.updatedAt]

\* The document hydrated from a stored record
Hydrate(rec) ==
    [sessionId |-> rec.sessionId, jobTitle |-> rec.jobTitle, history |-> rec.history,
     createdAt |-> rec.createdAt, updatedAt |-> rec.updatedAt,
     isNew |-> FALSE, persisted |-> Len(rec.history), jobTitleSet |-> FALSE, updatedAtSet |-> FALSE]

\* A findOne without the sessionId filter: any document of the collection
FindAny(coll, sid) ==
    IF coll # {} THEN Hydrate(CHOOSE rec \in coll : TRUE) ELSE NullDoc

\* ChatSession.findOne({ sessionId }) against collection coll: a document or null
FindOne(coll, sid) ==
    IF \E rec \in coll : rec.sessionId = sid
    THEN Hydrate(CHOOSE rec \in coll : rec.sessionId = sid)
    ELSE NullDoc

\* A formatter that leaves out the turns without text
formatTurnsWithText(history) ==
    LET kept == SelectSeq(history, LAMBDA entry : entry.text # "")
    IN  [i \in 1..Len(kept) |-> [role |-> kept[i].role, parts |-> <<[text |-> kept[i].text]>>]]

\* history.map(entry => ({ role, parts: [{ text }] }))
formatHistoryForGemini(history) ==
    [i \in 1..Len(history) |-> [role |-> history[i].role, parts |-> <<[text |-> history[i].text]>>]]

\* An error: message is a sequence of the words of error.message; hasMessage is
\* FALSE for a thrown value without a string message.  Mongoose and the Gemini
\* client reject with Error objects, so the errors the actions below draw all
\* have a message.
Err(words) == [hasMessage |-> TRUE, message |-> words]
NoMessageErr == [hasMessage |-> FALSE, message |-> <<>>]
NoErr == [hasMessage |-> FALSE, message |-> <<"no error">>]

\* error.message.includes(word)
Includes(e, word) == \E i \in 1..Len(e.message) : e.message[i] = word

\* What findOne and save reject with when the store cannot be reached
StoreErrors == {Err(<<"Database", "connection", "lost">>), Err(<<"connect", "ECONNREFUSED">>)}
\* What save rejects with when a required path is empty
ValidationErr == Err(<<"ChatSession", "validation", "failed">>)
\* What save rejects with when the unique index on sessionId already holds the key
DuplicateKeyErr == Err(<<"E11000", "duplicate", "key", "error">>)
\* What sendMessageStream or its stream throws
SendErrors ==
    {Err(<<"Gemini", "API", "rate", "limit", "exceeded">>),
     Err(<<"GoogleGenerativeAI", "API key not valid">>)}
\* chunk.text() on a chunk whose text is no function
NotAFunctionErr == Err(<<"chunk.text", "is", "not", "a", "function">>)

(***************************************************************************)
(* Responses                                                               *)
(***************************************************************************)
NoResponse == [status |-> 0, error |-> Undefined, response |-> Undefined, history |-> <<>>]
\* res.status(code).json({ error })
ErrorResponse(code, text) == [status |-> code, error |-> text, response |-> Undefined, history |-> <<>>]
\* res.json({ response, history })
OkResponse(reply, history) == [status |-> 200, error |-> Undefined, response |-> reply, history |-> history]

MissingFieldsText == "Missing sessionId, jobTitle, or userResponse in request body."
DatabaseErrorText == "Failed to access chat session in database."
ProcessErrorText == "Failed to process interview request or get AI response. Please check backend logs for details."

(***************************************************************************)
(* Validation of the body, per server                                      *)
(***************************************************************************)
MissingFields_S1(b) == Falsy(b.sessionId) \/ Falsy(b.jobTitle) \/ b.userResponse = Undefined
MissingFields_S2(b) == Falsy(b.sessionId) \/ Falsy(b.jobTitle) \/ b.userResponse = Undefined \/ b.userResponse = Null
MissingFields_P0(b) == Falsy(b.sessionId) \/ Falsy(b.jobTitle) \/ b.userResponse = Undefined \/ b.userResponse = Null
MissingFields_P1(b) == Falsy(b.sessionId) \/ Falsy(b.jobTitle) \/ b.userResponse = Undefined
MissingFields_P2(b) == Falsy(b.sessionId) \/ Falsy(b.jobTitle) \/ b.userResponse = Undefined \/ b.userResponse = Null
MissingFields_P3(b) == Falsy(b.sessionId) \/ Falsy(b.jobTitle) \/ b.userResponse = Undefined \/ b.userResponse = Null

\* A validation that does not look at jobTitle
MissingFieldsButJobTitle(s, b) == Falsy(b.sessionId) \/ b.userResponse = Undefined

MissingFields(s, b) ==
    CASE s = "S1" -> MissingFields_S1(b)
      [] s = "S2" -> MissingFields_S2(b)
      [] s = "P0" -> MissingFields_P0(b)
      [] s = "P1" -> MissingFields_P1(b)
      [] s = "P2" -> MissingFields_P2(b)
      [] s = "P3" -> MissingFields_P3(b)

BadRequest_S1 == ErrorResponse(400, "Missing sessionId, jobTitle, or userResponse")
BadRequest_S2 == ErrorResponse(400, MissingFieldsText)
BadRequest_P0 == ErrorResponse(400, MissingFieldsText)
BadRequest_P1 == ErrorResponse(400, MissingFieldsText)
BadRequest_P2 == ErrorResponse(400, MissingFieldsText)
BadRequest_P3 == ErrorResponse(400, MissingFieldsText)

BadRequest(s) ==
    CASE s = "S1" -> BadRequest_S1
      [] s = "S2" -> BadRequest_S2
      [] s = "P0" -> BadRequest_P0
      [] s = "P1" -> BadRequest_P1
      [] s = "P2" -> BadRequest_P2
      [] s = "P3" -> BadRequest_P3

(***************************************************************************)
(* After findOne: the session the request works on                         *)
(***************************************************************************)
\* chatSession.jobTitle = jobTitle on a loaded document
SetJobTitle(doc, jt) == [doc EXCEPT !.jobTitle = jt, !.jobTitleSet = (doc.jobTitle # jt)]

LoadOrCreate_S1(found, b) ==
    IF found = NullDoc THEN NewChatSession(b.sessionId, b.jobTitle) ELSE SetJobTitle(found, b.jobTitle)
LoadOrCreate_S2(found, b) ==
    IF found = NullDoc THEN NewChatSession(b.sessionId, b.jobTitle) ELSE found
LoadOrCreate_P0(found, b) ==
    IF found = NullDoc THEN NewChatSession(b.sessionId, b.jobTitle) ELSE found
LoadOrCreate_P1(found, b) ==
    IF found = NullDoc THEN NewChatSession(b.sessionId, b.jobTitle) ELSE SetJobTitle(found, b.jobTitle)
LoadOrCreate_P2(found, b) ==
    IF found = NullDoc THEN NewChatSession(b.sessionId, b.jobTitle) ELSE found
LoadOrCreate_P3(found, b) ==
    IF found = NullDoc THEN NewChatSession(b.sessionId, b.jobTitle) ELSE found

LoadOrCreate(s, found, b) ==
    CASE s = "S1" -> LoadOrCreate_S1(found, b)
      [] s = "S2" -> LoadOrCreate_S2(found, b)
      [] s = "P0" -> LoadOrCreate_P0(found, b)
      [] s = "P1" -> LoadOrCreate_P1(found, b)
      [] s = "P2" -> LoadOrCreate_P2(found, b)
      [] s = "P3" -> LoadOrCreate_P3(found, b)

(***************************************************************************)
(* From the session to the await of sendMessageStream.                     *)
(* The result: the session (with what was pushed so far), the message      *)
(* passed to sendMessageStream, the history passed to startChat, whether   *)
(* the backend is called at all, and the reply when it is not.             *)
(***************************************************************************)
Push(doc, turn) == [doc EXCEPT !.history = Append(@, turn)]

Prepared(doc, msg, ctx, calls, reply) ==
    [chatSession |-> doc, message |-> msg, context |-> ctx, callsBackend |-> calls, reply |-> reply]

\* the message the server sends
messageToGemini_S1(doc, ur) ==
    IF Len(doc.history) = 0 THEN OrElse(ur, "start interview") ELSE ur
messageToGemini_S2(doc, ur) ==
    IF Len(doc.history) = 0 /\ (ur = "" \/ ur = Null) THEN "start a mock interview session" ELSE ur
messageToGemini_P0(doc, ur) ==
    IF Len(doc.history) = 0 /\ ur = "" THEN "start a mock interview" ELSE ur
messageToGemini_P1(doc, ur) ==
    IF Len(doc.history) = 0 THEN OrElse(ur, "start a mock interview") ELSE ur
messageToGemini_P3(doc, ur) ==
    IF Len(doc.history) = 0 /\ ur = "" THEN "start a mock interview" ELSE ur

Prepare_S1(doc, b) ==
    Prepared(doc, messageToGemini_S1(doc, b.userResponse),
             formatHistoryForGemini(doc.history), TRUE, "")

Prepare_S2(doc, b) ==
    LET msg == messageToGemini_S2(doc, b.userResponse)
    IN  Prepared(Push(doc, Turn("S2", "user", msg)), msg,
                 formatHistoryForGemini(doc.history), TRUE, "")

Prepare_P0(doc, b) ==
    LET msg == messageToGemini_P0(doc, b.userResponse)
    IN  Prepared(Push(doc, Turn("P0", "user", msg)), msg,
                 formatHistoryForGemini(doc.history), TRUE, "")

Prepare_P1(doc, b) ==
    LET msg == messageToGemini_P1(doc, b.userResponse)
        historyForGemini == formatHistoryForGemini(doc.history)
    IN  IF Len(doc.history) = 0
        THEN Prepared(doc, msg, historyForGemini, TRUE, "")
        ELSE Prepared(Push(doc, Turn("P1", "user", b.userResponse)), msg,
                      Append(historyForGemini,
                             [role |-> "user", parts |-> <<[text |-> b.userResponse]>>]),
                      TRUE, "")

Prepare_P2(doc, b) ==
    IF doc.isNew
    THEN Prepared(Push(Push(doc, Turn("P2", "user", "start a mock interview")),
                       Turn("P2", "model", "Tell me about yourself.")),
                  Undefined, <<>>, FALSE, "Tell me about yourself.")
    ELSE Prepared(Push(doc, Turn("P2", "user", b.userResponse)), b.userResponse,
                  formatHistoryForGemini(doc.history), TRUE, "")

Prepare_P3(doc, b) ==
    LET msg == messageToGemini_P3(doc, b.userResponse)
    IN  Prepared(Push(doc, Turn("P3", "user", msg)), msg,
                 formatHistoryForGemini(doc.history), TRUE, "")

Prepare(s, doc, b) ==
    CASE s = "S1" -> Prepare_S1(doc, b)
      [] s = "S2" -> Prepare_S2(doc, b)
      [] s = "P0" -> Prepare_P0(doc, b)
      [] s = "P1" -> Prepare_P1(doc, b)
      [] s = "P2" -> Prepare_P2(doc, b)
      [] s = "P3" -> Prepare_P3(doc, b)

(***************************************************************************)
(* The streamed reply                                                      *)
(***************************************************************************)
\* A chunk exposes its text as a function (textFn), as a string field
\* (textField), under candidates[0].content.parts[0] (candidate), has such a
\* part without text (candidateNoText), or has none of these (other).
Chunks ==
    {[shape |-> "textFn", text |-> "A"],
     [shape |-> "textField", text |-> "B"],
     [shape |-> "candidate", text |-> "C"],
     [shape |-> "candidateNoText", text |-> Undefined],
     [shape |-> "other", text |-> Undefined]}

RECURSIVE SeqsUpTo(_, _)
SeqsUpTo(S, n) ==
    IF n = 0 THEN {<<>>}
    ELSE LET shorter == SeqsUpTo(S, n - 1)
         IN  shorter \cup {Append(q, x) : q \in {t \in shorter : Len(t) = n - 1}, x \in S}

\* What sendMessageStream resolves with: the chunks the stream yields, and the
\* error it throws after them (NoErr when it ends normally).
Streams == [chunks : SeqsUpTo(Chunks, MaxChunks), error : SendErrors \cup {NoErr}]

\* The streams of the session model: an empty one, one chunk with text(), one
\* chunk without it, and a stream that fails after its first chunk.
Stream(chunks, error) == [chunks |-> chunks, error |-> error]
TextFnChunk == [shape |-> "textFn", text |-> "A"]
OtherChunk == [shape |-> "other", text |-> Undefined]
ReplyStreams ==
    {Stream(<<>>, NoErr), Stream(<<TextFnChunk>>, NoErr), Stream(<<OtherChunk>>, NoErr)}
    \cup {Stream(<<TextFnChunk>>, e) : e \in SendErrors}

\* One pass of the loop body: what is appended, or that chunk.text() threw
Appended(text) == [threw |-> FALSE, text |-> text]
Threw == [threw |-> TRUE, text |-> ""]

ChunkText_S1(c) ==
    CASE c.shape = "textFn" -> Appended(c.text)
      [] c.shape = "textField" -> Appended(c.text)
      [] c.shape \in {"candidate", "candidateNoText"} -> Appended(ToText(c.text))
      [] OTHER -> Appended("")
ChunkText_S2(c) == IF c.shape = "textFn" THEN Appended(c.text) ELSE Threw
ChunkText_P0(c) == IF c.shape = "textFn" THEN Appended(c.text) ELSE Threw
ChunkText_P1(c) ==
    CASE c.shape = "textFn" -> Appended(c.text)
      [] c.shape = "textField" -> Appended(c.text)
      [] c.shape = "candidate" /\ ~Falsy(c.text) -> Appended(c.text)
      [] OTHER -> Appended("")
ChunkText_P2(c) == IF c.shape = "textFn" THEN Appended(c.text) ELSE Threw
ChunkText_P3(c) == IF c.shape = "textFn" THEN Appended(c.text) ELSE Threw

ChunkText(s, c) ==
    CASE s = "S1" -> ChunkText_S1(c)
      [] s = "S2" -> ChunkText_S2(c)
      [] s = "P0" -> ChunkText_P0(c)
      [] s = "P1" -> ChunkText_P1(c)
      [] s = "P2" -> ChunkText_P2(c)
      [] s = "P3" -> ChunkText_P3(c)

\* for await (const chunk of stream) text += ...
RECURSIVE Accumulate(_, _, _)
Accumulate(s, chunks, text) ==
    IF chunks = <<>> THEN Appended(text)
    ELSE LET one == ChunkText(s, Head(chunks))
         IN  IF one.threw THEN Threw ELSE Accumulate(s, Tail(chunks), text \o one.text)

(***************************************************************************)
(* From the end of the stream to the await of save                         *)
(***************************************************************************)
Complete_S1(doc, b, msg, reply) ==
    LET withUser == IF b.userResponse # Undefined /\ b.userResponse # "start interview"
                    THEN Push(doc, Turn("S1", "user", b.userResponse))
                    ELSE doc
    IN  Push(withUser, Turn("S1", "model", reply))
Complete_S2(doc, b, msg, reply) == Push(doc, Turn("S2", "model", reply))
Complete_P0(doc, b, msg, reply) == Push(doc, Turn("P0", "model", reply))
Complete_P1(doc, b, msg, reply) ==
    LET withUser == IF Len(doc.history) = 0 THEN Push(doc, Turn("P1", "user", msg)) ELSE doc
    IN  Push(withUser, Turn("P1", "model", reply))
Complete_P2(doc, b, msg, reply) == Push(doc, Turn("P2", "model", reply))
Complete_P3(doc, b, msg, reply) == Push(doc, Turn("P3", "model", reply))

Complete(s, doc, b, msg, reply) ==
    CASE s = "S1" -> Complete_S1(doc, b, msg, reply)
      [] s = "S2" -> Complete_S2(doc, b, msg, reply)
      [] s = "P0" -> Complete_P0(doc, b, msg, reply)
      [] s = "P1" -> Complete_P1(doc, b, msg, reply)
      [] s = "P2" -> Complete_P2(doc, b, msg, reply)
      [] s = "P3" -> Complete_P3(doc, b, msg, reply)

(***************************************************************************)
(* chatSession.save()                                                      *)
(***************************************************************************)
\* The schema's required paths hold a value (a required String rejects "")
Valid_S1(doc) == ~Falsy(doc.sessionId)
Valid_S2(doc) == ~Falsy(doc.sessionId) /\ ~Falsy(doc.jobTitle)
Valid_P0(doc) == ~Falsy(doc.sessionId) /\ ~Falsy(doc.jobTitle)
Valid_P1(doc) ==
    /\ ~Falsy(doc.sessionId)
    /\ ~Falsy(doc.jobTitle)
    /\ \A i \in 1..Len(doc.history) : ~Falsy(doc.history[i].role) /\ ~Falsy(doc.history[i].text)
Valid_P2(doc) == ~Falsy(doc.sessionId) /\ ~Falsy(doc.jobTitle)
Valid_P3(doc) == ~Falsy(doc.sessionId) /\ ~Falsy(doc.jobTitle)

Valid(s, doc) ==
    CASE s = "S1" -> Valid_S1(doc)
      [] s = "S2" -> Valid_S2(doc)
      [] s = "P0" -> Valid_P0(doc)
      [] s = "P1" -> Valid_P1(doc)
      [] s = "P2" -> Valid_P2(doc)
      [] s = "P3" -> Valid_P3(doc)

\* A collection without the unique index on sessionId refuses no insert
NoUniqueIndex(coll, doc) == FALSE

\* sessionId: { unique: true }: an insert of a key the collection holds is refused
DuplicateKey(coll, doc) == doc.isNew /\ \E rec \in coll : rec.sessionId = doc.sessionId

\* The entries pushed since the document was loaded
Pushed(doc) == SubSeq(doc.history, doc.persisted + 1, Len(doc.history))

\* A save that replaces the stored record by the document in memory
Overwritten(coll, doc) ==
    {rec \in coll : rec.sessionId # doc.sessionId} \cup {Stored(doc)}

\* The collection after save: a new document is inserted; a loaded one is
\* updated with what changed: the pushed entries, an assigned jobTitle, an
\* assigned updatedAt.
Saved(coll, doc) ==
    IF doc.isNew
    THEN coll \cup {Stored(doc)}
    ELSE {IF rec.sessionId = doc.sessionId
          THEN [rec EXCEPT !.history = @ \o Pushed(doc),
                           !.jobTitle = IF doc.jobTitleSet THEN doc.jobTitle ELSE @,
                           !.updatedAt = IF doc.updatedAtSet THEN doc.updatedAt ELSE @]
          ELSE rec : rec \in coll}

\* What save rejects with, if it does
SaveErrors(s, coll, doc) ==
    IF ~Valid(s, doc) THEN {ValidationErr}
    ELSE IF DuplicateKey(coll, doc) THEN {DuplicateKeyErr}
    ELSE StoreErrors

(***************************************************************************)
(* The catch blocks.  A catch that reads error.message of a value without  *)
(* one throws itself, and the request is never answered (NoResponse).      *)
(***************************************************************************)
IsDatabaseError(e) == Includes(e, "Database") \/ (Includes(e, "MongoDB") /\ ~Includes(e, "Cast to ObjectId"))

Catch_S1(e) == ErrorResponse(500, "Failed to get response from AI interviewer or save session.")
Catch_S2(e) ==
    IF ~e.hasMessage THEN NoResponse
    ELSE IF IsDatabaseError(e) THEN ErrorResponse(500, DatabaseErrorText)
    ELSE ErrorResponse(500, ProcessErrorText)
Catch_P0(e) ==
    IF ~e.hasMessage THEN NoResponse
    ELSE IF IsDatabaseError(e) THEN ErrorResponse(500, DatabaseErrorText)
    ELSE IF Includes(e, "Gemini AI") \/ Includes(e, "GoogleGenerativeAI")
         THEN ErrorResponse(500, "Failed to get AI response. Please check backend logs and GOOGLE_API_KEY.")
    ELSE ErrorResponse(500, "Failed to process interview request. Please check backend logs for details.")
Catch_P1(e) == ErrorResponse(500, ProcessErrorText)
Catch_P2(e) ==
    IF ~e.hasMessage THEN NoResponse
    ELSE IF Includes(e, "API key not valid") \/ Includes(e, "INVALID_ARGUMENT")
         THEN ErrorResponse(401, "Gemini API Key is invalid or not properly configured.")
    ELSE IF IsDatabaseError(e) THEN ErrorResponse(500, DatabaseErrorText)
    ELSE ErrorResponse(500, ProcessErrorText)
Catch_P3(e) ==
    IF ~e.hasMessage THEN NoResponse
    ELSE IF Includes(e, "Database") THEN ErrorResponse(500, DatabaseErrorText)
    ELSE ErrorResponse(500, ProcessErrorText)

Catch(s, e) ==
    CASE s = "S1" -> Catch_S1(e)
      [] s = "S2" -> Catch_S2(e)
      [] s = "P0" -> Catch_P0(e)
      [] s = "P1" -> Catch_P1(e)
      [] s = "P2" -> Catch_P2(e)
      [] s = "P3" -> Catch_P3(e)

\* The catch around findOne: S1 and P1 have one of its own
LoadCatch_S1(e) == ErrorResponse(500, DatabaseErrorText)
LoadCatch_P1(e) == ErrorResponse(500, DatabaseErrorText)

LoadCatch(s, e) ==
    CASE s = "S1" -> LoadCatch_S1(e)
      [] s = "P1" -> LoadCatch_P1(e)
      [] OTHER -> Catch(s, e)

(***************************************************************************)
(* Requests                                                                *)
(***************************************************************************)
\* A slot before a request arrives.  found is what findOne resolved with;
\* before and written hold the stored record of the session as this request's
\* save found it and left it; the counters count the calls the request made;
\* failedAt names the await that threw and error what it threw.
IdleReq ==
    [pc |-> "idle", body |-> Body(Undefined, Undefined, Undefined),
     found |-> NullDoc, chatSession |-> NullDoc,
     message |-> Undefined, context |-> <<>>, reply |-> "",
     res |-> NoResponse, before |-> {}, written |-> {}, failedAt |-> "none", error |-> NoErr,
     findOnes |-> 0, constructed |-> 0, startChats |-> 0, sends |-> 0, saves |-> 0]

\* The await named where threw e and the catch answered res (NoResponse: the
\* catch threw itself)
Failed(q, where, e, res) ==
    [q EXCEPT !.pc = IF res = NoResponse THEN "hung" ELSE "done",
              !.res = res, !.failedAt = where, !.error = e]

\* The collection after the first request of a session: the body
\* ("s1", "Engineer", "") answered with reply "A" by server s, the session
\* constructed at time 0 and saved at time 1
FirstSession(s) ==
    LET b == Body("s1", "Engineer", "")
        p == Prepare(s, WithDefaults(s, LoadOrCreate(s, NullDoc, b), 0), b)
        doc == IF p.callsBackend
               THEN Complete(s, p.chatSession, b, p.message, "A")
               ELSE p.chatSession
    IN  Saved({}, PreSave(s, doc, 1))

\* The clock when the process starts
StartTime == 2

\* The process starts on an empty collection or on one that holds a session
\* an earlier run of the same server left
Init ==
    /\ server \in Servers
    /\ db \in {{}, FirstSession(server)}
    /\ req = [r \in Slots |-> IdleReq]
    /\ received = 0
    /\ now = StartTime
    /\ streamed = Stream(<<>>, NoErr)

\* A request arrives: the body is validated and findOne is called
Receive(r) ==
    /\ req[r].pc = "idle"
    /\ received < MaxRequests
    /\ \E b \in Bodies :
         req' = [req EXCEPT ![r] =
                   IF MissingFields(server, b)
                   THEN [IdleReq EXCEPT !.pc = "done", !.body = b, !.res = BadRequest(server),
                                        !.failedAt = "validation"]
                   ELSE [IdleReq EXCEPT !.pc = "findOne", !.body = b, !.findOnes = 1]]
    /\ received' = received + 1
    /\ UNCHANGED <<streamed, server, db, now>>

\* A handler that does not await the stream before it calls save: both calls
\* are pending together
FindOneResolvesThenFansOut(r) ==
    /\ req[r].pc = "findOne"
    /\ LET q == req[r]
           found == FindOne(db, q.body.sessionId)
           doc == WithDefaults(server, LoadOrCreate(server, found, q.body), now)
           p == Prepare(server, doc, q.body)
       IN  /\ now' = IF doc.isNew THEN now + 1 ELSE now
           /\ req' = [req EXCEPT ![r] =
                     [q EXCEPT !.pc = IF p.callsBackend THEN "sendMessageStream" ELSE "save",
                               !.found = found,
                               !.constructed = IF doc.isNew THEN 1 ELSE 0,
                               !.chatSession = p.chatSession,
                               !.message = p.message,
                               !.context = p.context,
                               !.reply = p.reply,
                               !.startChats = IF p.callsBackend THEN 1 ELSE 0,
                               !.sends = IF p.callsBackend THEN 1 ELSE 0,
                               !.saves = 1]]
    /\ UNCHANGED <<streamed, server, db, received>>

\* findOne resolves; the handler runs up to its next await
FindOneResolves(r) ==
    /\ req[r].pc = "findOne"
    /\ LET q == req[r]
           found == FindOne(db, q.body.sessionId)
           doc == WithDefaults(server, LoadOrCreate(server, found, q.body), now)
           p == Prepare(server, doc, q.body)
       IN  /\ now' = IF doc.isNew THEN now + 1 ELSE now
           /\ req' = [req EXCEPT ![r] =
                     [q EXCEPT !.pc = IF p.callsBackend THEN "sendMessageStream" ELSE "save",
                               !.found = found,
                               !.constructed = IF doc.isNew THEN 1 ELSE 0,
                               !.chatSession = p.chatSession,
                               !.message = p.message,
                               !.context = p.context,
                               !.reply = p.reply,
                               !.startChats = IF p.callsBackend THEN 1 ELSE 0,
                               !.sends = IF p.callsBackend THEN 1 ELSE 0,
                               !.saves = IF p.callsBackend THEN 0 ELSE 1]]
    /\ UNCHANGED <<streamed, server, db, received>>

\* A handler whose catch around findOne takes the failure for "no such
\* session" and goes on with a new one
FindOneRejectsAsAbsent(r) ==
    /\ req[r].pc = "findOne"
    /\ \E e \in StoreErrors :
         LET q == req[r]
             doc == WithDefaults(server, LoadOrCreate(server, NullDoc, q.body), now)
             p == Prepare(server, doc, q.body)
         IN  req' = [req EXCEPT ![r] =
                       [q EXCEPT !.pc = IF p.callsBackend THEN "sendMessageStream" ELSE "save",
                                 !.failedAt = "findOne",
                                 !.error = e,
                                 !.constructed = 1,
                                 !.chatSession = p.chatSession,
                                 !.message = p.message,
                                 !.context = p.context,
                                 !.reply = p.reply,
                                 !.startChats = IF p.callsBackend THEN 1 ELSE 0,
                                 !.sends = IF p.callsBackend THEN 1 ELSE 0,
                                 !.saves = IF p.callsBackend THEN 0 ELSE 1]]
    /\ now' = now + 1
    /\ UNCHANGED <<streamed, server, db, received>>

\* findOne rejects
FindOneRejects(r) ==
    /\ req[r].pc = "findOne"
    /\ \E e \in StoreErrors :
         req' = [req EXCEPT ![r] = Failed(req[r], "findOne", e, LoadCatch(server, e))]
    /\ UNCHANGED <<streamed, server, db, received, now>>

\* sendMessageStream resolves and the stream is consumed
StreamConsumedFrom(r, streams) ==
    /\ req[r].pc = "sendMessageStream"
    /\ \E st \in streams :
         LET q == req[r]
             acc == Accumulate(server, st.chunks, "")
         IN  req' = [req EXCEPT ![r] =
                       IF acc.threw
                       THEN Failed(q, "sendMessageStream", NotAFunctionErr, Catch(server, NotAFunctionErr))
                       ELSE IF st.error # NoErr
                       THEN Failed(q, "sendMessageStream", st.error, Catch(server, st.error))
                       ELSE [q EXCEPT !.pc = "save",
                                      !.reply = acc.text,
                                      !.chatSession = Complete(server, q.chatSession, q.body, q.message, acc.text),
                                      !.saves = 1]]
    /\ UNCHANGED <<server, db, received, now>>

StreamConsumed(r) == StreamConsumedFrom(r, ReplyStreams) /\ UNCHANGED streamed

\* A handler that calls sendMessageStream a second time when the first call
\* throws
SendRejectsThenRetries(r, errors) ==
    /\ req[r].pc = "sendMessageStream"
    /\ \E e \in errors :
         req' = [req EXCEPT ![r] =
                   IF req[r].sends < 2
                   THEN [req[r] EXCEPT !.sends = @ + 1]
                   ELSE Failed(req[r], "sendMessageStream", e, Catch(server, e))]
    /\ UNCHANGED <<streamed, server, db, received, now>>

\* sendMessageStream throws
SendRejectsWith(r, errors) ==
    /\ req[r].pc = "sendMessageStream"
    /\ \E e \in errors :
         req' = [req EXCEPT ![r] = Failed(req[r], "sendMessageStream", e, Catch(server, e))]
    /\ UNCHANGED <<streamed, server, db, received, now>>

SendRejects(r) == SendRejectsWith(r, SendErrors)

\* save resolves: the pre-save hook has run, the collection is written and
\* the response is sent
SaveResolves(r) ==
    /\ req[r].pc = "save"
    /\ LET q == req[r]
           doc == PreSave(server, q.chatSession, now)
       IN
       /\ Valid(server, doc)
       /\ ~DuplicateKey(db, doc)
       /\ db' = Saved(db, doc)
       /\ now' = IF doc.updatedAtSet THEN now + 1 ELSE now
       /\ req' = [req EXCEPT ![r] =
                    [q EXCEPT !.pc = "done",
                              !.chatSession = doc,
                              !.res = OkResponse(q.reply, doc.history),
                              !.before = {rec \in db : rec.sessionId = q.body.sessionId},
                              !.written = {rec \in db' : rec.sessionId = q.body.sessionId}]]
    /\ UNCHANGED <<streamed, server, received>>

\* A store that applies the write and then reports the save as failed
SaveRejectsAfterWriting(r) ==
    /\ req[r].pc = "save"
    /\ \E e \in SaveErrors(server, db, req[r].chatSession) :
         LET q == Failed(req[r], "save", e, Catch(server, e))
         IN  /\ db' = Saved(db, req[r].chatSession)
             /\ req' = [req EXCEPT ![r] =
                          [q EXCEPT !.before = {rec \in db : rec.sessionId = q.body.sessionId},
                                    !.written = {rec \in db' : rec.sessionId = q.body.sessionId}]]
    /\ UNCHANGED <<streamed, server, received, now>>

\* save rejects: the store did not apply the write
SaveRejects(r) ==
    /\ req[r].pc = "save"
    /\ \E e \in SaveErrors(server, db, req[r].chatSession) :
         req' = [req EXCEPT ![r] = Failed(req[r], "save", e, Catch(server, e))]
    /\ UNCHANGED <<streamed, server, db, received, now>>

\* The response has been delivered; the slot is free again
Finish(r) ==
    /\ req[r].pc = "done"
    /\ req' = [req EXCEPT ![r] = IdleReq]
    /\ UNCHANGED <<streamed, server, db, received, now>>

Next ==
    \E r \in Slots :
        \/ Receive(r)
        \/ FindOneResolves(r)
        \/ FindOneRejects(r)
        \/ StreamConsumed(r)
        \/ SendRejects(r)
        \/ SaveResolves(r)
        \/ SaveRejects(r)
        \/ Finish(r)

Spec == Init /\ [][Next]_vars

(***************************************************************************)
(* The stream: one request, whose sendMessageStream call resolves with a   *)
(* stream of any chunks of any shape                                       *)
(***************************************************************************)
Reader == "r1"

FirstRequest == received = 0 /\ Receive(Reader)

Loaded == FindOneResolves(Reader)

StreamRead == \E st \in Streams : StreamConsumedFrom(Reader, {st}) /\ streamed' = st

ReplySaved == SaveResolves(Reader)

ReplyNotSaved == SaveRejects(Reader)

StreamNext == FirstRequest \/ Loaded \/ StreamRead \/ ReplySaved \/ ReplyNotSaved

StreamSpec == Init /\ [][StreamNext]_vars

(***************************************************************************)
(* Thrown values: one request, whose sendMessageStream call may reject     *)
(* with any value, one without a message among them.  A catch that reads   *)
(* error.message of such a value throws, and the promise of the async      *)
(* handler rejects: Express 5 passes the rejection to its default error    *)
(* handler, which answers 500; Express 4 does not, and nothing is ever     *)
(* sent.  The repository does not say which Express it runs on.            *)
(***************************************************************************)
ThrownValues == SendErrors \cup {NoMessageErr}

Thrown == SendRejectsWith(Reader, ThrownValues)

Replied == StreamConsumed(Reader)

NotLoaded == FindOneRejects(Reader)

\* The steps of the handler and of its collaborators
HandlerStep ==
    FirstRequest \/ Loaded \/ NotLoaded \/ Replied \/ Thrown \/ ReplySaved \/ ReplyNotSaved

\* The framework's default error handler answers a request whose handler
\* rejected
DefaultErrorHandler ==
    /\ req[Reader].pc = "hung"
    /\ req' = [req EXCEPT ![Reader] =
                 [req[Reader] EXCEPT !.pc = "done",
                                     !.res = ErrorResponse(500, "Internal Server Error")]]
    /\ UNCHANGED <<streamed, server, db, received, now>>

ThrowNext == HandlerStep \/ DefaultErrorHandler

\* The store and the backend eventually return or throw, and the handler runs
\* on; that the framework answers for a handler that rejected is not assumed
ThrowSpec == Init /\ [][ThrowNext]_vars /\ WF_vars(HandlerStep)

(***************************************************************************)
(* The formatter: a session with any history of at most MaxTurns turns is  *)
(* loaded and its history is formatted for startChat                       *)
(***************************************************************************)
Histories(s) ==
    SeqsUpTo({Turn(s, role, text) : role \in {"user", "model"}, text \in {"", "A"}}, MaxTurns)

SessionWith(s, history) ==
    [sessionId |-> "s1", jobTitle |-> "Engineer", history |-> history,
     createdAt |-> 0, updatedAt |-> IF HasUpdatedAt(s) THEN 0 ELSE NoDate]

FormatInit ==
    /\ server \in Servers
    /\ \E history \in Histories(server) :
         /\ db = {SessionWith(server, history)}
         /\ req = [r \in Slots |->
                     IF r = Reader
                     THEN [IdleReq EXCEPT !.pc = "format",
                                          !.body = Body("s1", "Engineer", "A"),
                                          !.findOnes = 1,
                                          !.found = FindOne(db, "s1"),
                                          !.chatSession = FindOne(db, "s1")]
                     ELSE IdleReq]
    /\ received = 1
    /\ now = StartTime
    /\ streamed = Stream(<<>>, NoErr)

Format ==
    /\ req[Reader].pc = "format"
    /\ req' = [req EXCEPT ![Reader] =
                 [req[Reader] EXCEPT !.pc = "formatted",
                                     !.context = formatHistoryForGemini(req[Reader].chatSession.history)]]
    /\ UNCHANGED <<streamed, server, db, received, now>>

FormatNext == Format

FormatSpec == FormatInit /\ [][FormatNext]_vars

(***************************************************************************)
(* Claims                                                                  *)
(***************************************************************************)
\* The request of slot r has been answered
Answered(r) == req[r].pc = "done"
\* ... with 200
Succeeded(r) == req[r].pc = "done" /\ req[r].res.status = 200
\* h1 is a prefix of h2
IsPrefix(h1, h2) == Len(h1) <= Len(h2) /\ SubSeq(h2, 1, Len(h1)) = h1
\* The history starts with user, alternates, and has even length
Alternates(h) ==
    /\ Len(h) % 2 = 0
    /\ \A i \in 1..Len(h) : h[i].role = IF i % 2 = 1 THEN "user" ELSE "model"
\* The session was not written between this request's findOne and its save
Undisturbed(r) ==
    \/ req[r].found = NullDoc /\ req[r].before = {}
    \/ req[r].found # NullDoc /\ req[r].before = {Stored(req[r].found)}

\* C1: in every reachable state the history of every stored session starts
\* with a user turn, alternates user/model and has even length.
C1_HistoryAlternates == \A rec \in db : Alternates(rec.history)

\* C2: a call answered 200 on a session loaded with history H returns, and
\* (when no other request wrote the session meanwhile) stores, H followed by
\* one user turn and one model turn.
C2_AppendsOneUserOneModel ==
    \A r \in Slots :
        Succeeded(r) =>
            LET H == req[r].found.history
                h == req[r].res.history
            IN  /\ Len(h) = Len(H) + 2
                /\ IsPrefix(H, h)
                /\ h[Len(H) + 1].role = "user"
                /\ h[Len(H) + 2].role = "model"
                /\ Undisturbed(r) => \A rec \in req[r].written : rec.history = h

\* C3: a call answered 200 for an unseen sessionId with userResponse ""
\* returns and stores a history of two entries, the first
\* {user, "start a mock interview"}, the second the model turn with the reply.
C3_FirstTurnSentinel ==
    \A r \in Slots :
        (Succeeded(r) /\ req[r].found = NullDoc /\ req[r].body.userResponse = "") =>
            LET h == req[r].res.history
            IN  /\ Len(h) = 2
                /\ h[1].role = "user" /\ h[1].text = "start a mock interview"
                /\ h[2].role = "model" /\ h[2].text = req[r].reply
                /\ \A rec \in req[r].written : rec.history = h

\* The store and the backend did their part of the request of slot r: every
\* await resolved, or save refused the document the handler built.
CollaboratorsWorked(r) ==
    /\ req[r].pc \in {"done", "hung"}
    /\ req[r].error \in {NoErr, ValidationErr, DuplicateKeyErr}

\* C4: on a session loaded with two turns or more, userResponse "" is answered
\* 200, "" is the message sent to the backend, and the user turn appended and
\* stored has the text "".
C4_EmptyFollowUpIsLiteral ==
    \A r \in Slots :
        (CollaboratorsWorked(r) /\ Len(req[r].found.history) >= 2 /\ req[r].body.userResponse = "") =>
            LET H == req[r].found.history
                h == req[r].res.history
            IN  /\ req[r].res.status = 200
                /\ req[r].message = ""
                /\ Len(h) = Len(H) + 2
                /\ h[Len(H) + 1].role = "user" /\ h[Len(H) + 1].text = ""
                /\ \A rec \in req[r].written :
                       Len(rec.history) >= 2 /\ rec.history[Len(rec.history) - 1].text = ""

\* C5: the sentinel replaces the message only when the loaded history is empty
\* and userResponse is ""; a call answered 200 for an unseen sessionId with a
\* non-empty userResponse u sent u to the backend and the first entry returned
\* and stored is {user, u}.
C5_NonEmptyFirstTurnVerbatim ==
    \A r \in Slots :
        LET q == req[r]
            u == q.body.userResponse
        IN  (Succeeded(r) /\ u \in UserTexts) =>
                /\ (q.sends = 0 \/ q.message # u) => (Len(q.found.history) = 0 /\ u = "")
                /\ (q.found = NullDoc /\ u # "") =>
                       /\ q.sends = 1 /\ q.message = u
                       /\ Len(q.res.history) >= 1
                       /\ q.res.history[1].role = "user" /\ q.res.history[1].text = u
                       /\ \A rec \in q.written :
                              Len(rec.history) >= 1 /\ rec.history[1].role = "user" /\ rec.history[1].text = u

\* C6: when the completion call throws (before the first chunk or while the
\* stream is consumed), the request never calls save, is answered 500, and
\* wrote nothing to the collection.
C6_BackendFailureNotPersisted ==
    \A r \in Slots :
        req[r].failedAt = "sendMessageStream" =>
            /\ req[r].saves = 0
            /\ req[r].written = {}
            /\ req[r].res.status = 500

\* C7: when findOne throws, the request is answered 500, constructs no
\* session, makes no backend call and never calls save.
C7_LoadFailureStops ==
    \A r \in Slots :
        req[r].failedAt = "findOne" =>
            /\ req[r].pc = "done"
            /\ req[r].res.status = 500
            /\ req[r].constructed = 0
            /\ req[r].chatSession = NullDoc
            /\ req[r].startChats = 0
            /\ req[r].sends = 0
            /\ req[r].saves = 0
            /\ req[r].written = {}

\* C7, witness: a request whose findOne threw has been answered
C7_LoadFailed == \E r \in Slots : req[r].failedAt = "findOne" /\ Answered(r)

\* C8: a call answered 200 made exactly one sendMessageStream call and exactly
\* one save, for a new session as for an existing one.
C8_OneSendOneSave ==
    \A r \in Slots : Succeeded(r) => (req[r].sends = 1 /\ req[r].saves = 1)

\* C9: a call answered 200 for a stored session whose jobTitle differs from the
\* request's leaves the stored jobTitle equal to the request's and the entries
\* the history had before in place.
C9_JobTitleRefreshed ==
    \A r \in Slots :
        (Succeeded(r) /\ req[r].found # NullDoc /\ req[r].found.jobTitle # req[r].body.jobTitle) =>
            /\ req[r].written # {}
            /\ \A rec \in req[r].written :
                   /\ rec.jobTitle = req[r].body.jobTitle
                   /\ IsPrefix(req[r].found.history, rec.history)

\* C10: a request is answered 400 with the missing-fields text exactly when
\* sessionId or jobTitle is absent or empty or userResponse is absent; such a
\* request makes no findOne, backend or save call; the other requests, the
\* ones with userResponse "" among them, are not answered 400.
C10_MissingFieldsRejected ==
    \A r \in Slots :
        LET q == req[r]
            missing == Falsy(q.body.sessionId) \/ Falsy(q.body.jobTitle) \/ q.body.userResponse = Undefined
        IN  (q.pc # "idle" /\ q.body.userResponse # Null) =>
                /\ missing <=> q.res.status = 400
                /\ missing =>
                       /\ q.pc = "done"
                       /\ q.res.error = MissingFieldsText
                       /\ q.findOnes = 0 /\ q.sends = 0 /\ q.saves = 0

\* C11: a call answered 200 returns the history its save stored, and the
\* response text is the text of the last entry of that history, a model turn.
C11_ReturnedIsPersisted ==
    \A r \in Slots :
        Succeeded(r) =>
            LET h == req[r].res.history
            IN  /\ req[r].written # {}
                /\ \A rec \in req[r].written : rec.history = h
                /\ Len(h) >= 1
                /\ h[Len(h)].role = "model"
                /\ h[Len(h)].text = req[r].res.response

\* Two requests that loaded the same stored session, so that both findOne
\* calls resolved before either save
LoadedSame(r1, r2) ==
    /\ r1 # r2
    /\ req[r1].found # NullDoc
    /\ req[r1].found = req[r2].found

\* C12: two concurrent requests that loaded the same stored session with
\* history H are both answered 200, and after both saves the stored history
\* is H followed by the later writer's turns only (what the later writer
\* returned); the earlier writer's turns are gone.
C12_LastWriterWins ==
    \A r1, r2 \in Slots :
        LoadedSame(r1, r2) =>
            /\ (CollaboratorsWorked(r1) /\ CollaboratorsWorked(r2)) =>
                   (req[r1].res.status = 200 /\ req[r2].res.status = 200)
            /\ (Succeeded(r1) /\ Succeeded(r2) /\ ~Undisturbed(r2)) =>
                   \A rec \in req[r2].written : rec.history = req[r2].res.history

\* Two requests for the same sessionId whose findOne both resolved with null,
\* so that each constructed a new session
BothLoadedAbsent(r1, r2) ==
    /\ r1 # r2
    /\ req[r1].body.sessionId = req[r2].body.sessionId
    /\ req[r1].constructed = 1 /\ req[r1].found = NullDoc
    /\ req[r2].constructed = 1 /\ req[r2].found = NullDoc

\* C13: when two concurrent requests for an unseen sessionId both loaded
\* "absent", both saves succeed, both are answered 200, and the record stored
\* after the later save is the later writer's session.
C13_NewSessionUpsert ==
    \A r1, r2 \in Slots :
        (BothLoadedAbsent(r1, r2) /\ CollaboratorsWorked(r1) /\ CollaboratorsWorked(r2)) =>
            /\ req[r1].res.status = 200
            /\ req[r2].res.status = 200
            /\ req[r2].before # {} => req[r2].written = {Stored(req[r2].chatSession)}

\* C14: in every reachable state the collection holds at most one record per
\* sessionId.
C14_OneRecordPerSession ==
    \A rec1, rec2 \in db : rec1.sessionId = rec2.sessionId => rec1 = rec2

\* C14, witness: two concurrent first requests for the same unseen sessionId
\* have both run to their end, one of them refused by the unique index
C14_ConcurrentFirstRequests ==
    \E r1, r2 \in Slots :
        /\ BothLoadedAbsent(r1, r2)
        /\ Succeeded(r1)
        /\ req[r2].pc = "done" /\ req[r2].failedAt = "save" /\ req[r2].error = DuplicateKeyErr

\* C15: every step keeps every stored session, and the history it held before
\* the step is a prefix of the history it holds after it.
C15_HistoryAppendOnly ==
    [][\A rec \in db :
           \E after \in db' :
               after.sessionId = rec.sessionId /\ IsPrefix(rec.history, after.history)]_vars

\* C15, witness: a request has saved a stored session that another request
\* wrote between its findOne and its save
C15_SavedAfterOtherWriter ==
    \E r \in Slots :
        /\ Succeeded(r)
        /\ req[r].found # NullDoc
        /\ ~Undisturbed(r)
        /\ \A rec \in req[r].written : Len(rec.history) > Len(req[r].res.history)

\* C16: a request whose findOne or save failed because the store could not be
\* reached is answered 500 with the storage text, whatever the error's message.
C16_StorageFailureText ==
    \A r \in Slots :
        (req[r].failedAt \in {"findOne", "save"} /\ req[r].error \in StoreErrors) =>
            req[r].res = ErrorResponse(500, DatabaseErrorText)

\* C17: a request whose sendMessageStream call or stream threw is answered 500
\* with the process text, never with the storage text.
C17_BackendFailureText ==
    \A r \in Slots :
        req[r].failedAt = "sendMessageStream" =>
            req[r].res = ErrorResponse(500, ProcessErrorText)

\* C18: a request whose save failed is answered, not with 200, and wrote
\* nothing; a request answered 200 stored its reply as the last turn of the
\* session; a request that wrote the session is answered 200.
C18_SaveAllOrNothing ==
    \A r \in Slots :
        /\ req[r].failedAt = "save" =>
               /\ req[r].pc = "done"
               /\ req[r].res.status \notin {0, 200}
               /\ req[r].res.response = Undefined
               /\ req[r].written = {}
        /\ Succeeded(r) =>
               /\ req[r].written # {}
               /\ \A rec \in req[r].written :
                      /\ Len(rec.history) >= 1
                      /\ rec.history[Len(rec.history)].text = req[r].res.response
        /\ req[r].written # {} => Succeeded(r)

\* C18, witness: the save of a stored session failed, the request has been
\* answered and the collection holds the session as the request loaded it
C18_SaveFailed ==
    \E r \in Slots :
        /\ req[r].failedAt = "save"
        /\ Answered(r)
        /\ req[r].found # NullDoc
        /\ Stored(req[r].found) \in db

\* C19: every response carries the status 200, 400 or 500.
C19_StatusCodes ==
    \A r \in Slots : Answered(r) => req[r].res.status \in {200, 400, 500}

\* C20: every step that writes a session leaves its updatedAt at the time of
\* the save: later than the updatedAt the record held, with createdAt as it
\* was; a record just created holds an updatedAt between its createdAt and
\* the time of the save.
C20_UpdatedAtAdvances ==
    [][\A after \in db' :
           after \notin db =>
               IF \E rec \in db : rec.sessionId = after.sessionId
               THEN \A rec \in db :
                        rec.sessionId = after.sessionId =>
                            /\ after.updatedAt = now
                            /\ after.updatedAt > rec.updatedAt
                            /\ after.createdAt = rec.createdAt
               ELSE /\ after.updatedAt # NoDate
                    /\ after.createdAt <= after.updatedAt
                    /\ after.updatedAt <= now]_vars

\* C21: in every reachable state every stored session has a history with at
\* least one user turn and one model turn.
C21_HistoryNonEmpty ==
    \A rec \in db :
        /\ \E i \in 1..Len(rec.history) : rec.history[i].role = "user"
        /\ \E i \in 1..Len(rec.history) : rec.history[i].role = "model"

\* C22: in every reachable state the jobTitle of every stored session is
\* neither null nor undefined nor "".
C22_JobTitleNonEmpty == \A rec \in db : ~Falsy(rec.jobTitle)

\* C22, witness: requests with jobTitle undefined and "" have been received
\* and answered while the collection holds a session a request of this run
\* wrote
C22_JobTitleChecked ==
    /\ \E r \in Slots : Answered(r) /\ Falsy(req[r].body.jobTitle) /\ db # {}
    /\ \E r \in Slots : Succeeded(r) /\ req[r].written # {} /\ req[r].written \subseteq db

\* C23: the history a request hands to startChat is the formatted history of
\* the session as findOne loaded it, entry for entry; the request's own
\* message is not in it and goes to the backend once, through the send call.
C23_ContextIsLoadedHistory ==
    \A r \in Slots :
        req[r].startChats = 1 =>
            /\ req[r].context = formatHistoryForGemini(req[r].found.history)
            /\ req[r].sends = 1

\* C24: in a call answered 200 on a session loaded with history H, the entry
\* appended after H is a user turn whose text is the message passed to
\* sendMessageStream.
C24_UserTurnIsSentMessage ==
    \A r \in Slots :
        Succeeded(r) =>
            LET H == req[r].found.history
                h == req[r].res.history
            IN  /\ req[r].sends = 1
                /\ Len(h) > Len(H)
                /\ h[Len(H) + 1].role = "user"
                /\ h[Len(H) + 1].text = req[r].message

\* The request of StreamSpec has read its stream to the end
StreamEnded ==
    /\ req[Reader].sends = 1
    /\ req[Reader].pc # "sendMessageStream"
    /\ streamed.error = NoErr

\* A chunk that exposes its text as an accessor, as a string field or under
\* candidates[0].content.parts[0].text
Recognized(c) == c.shape \in {"textFn", "textField", "candidate"}

\* The texts of the recognized chunks, in order
RECURSIVE RecognizedText(_)
RecognizedText(chunks) ==
    IF chunks = <<>> THEN ""
    ELSE (IF Recognized(Head(chunks)) THEN Head(chunks).text ELSE "") \o RecognizedText(Tail(chunks))

\* C25: when the stream ends normally, the accumulated reply is the
\* concatenation, in order, of the texts of the chunks of a recognized shape;
\* a chunk of another shape adds nothing and does not fail the call.
C25_ReplyIsRecognizedText ==
    StreamEnded =>
        /\ req[Reader].failedAt # "sendMessageStream"
        /\ req[Reader].reply = RecognizedText(streamed.chunks)

\* C26: when the stream ends normally and none of its chunks (if any) has a
\* recognized shape, the call is answered 200 with the response "" and stores
\* a model turn with the text "" as the last turn of the session.
C26_EmptyReplyIsSuccess ==
    (/\ StreamEnded
     /\ \A i \in 1..Len(streamed.chunks) : ~Recognized(streamed.chunks[i])
     /\ req[Reader].pc \in {"done", "hung"}
     /\ req[Reader].error \notin StoreErrors) =>
        /\ req[Reader].res.status = 200
        /\ req[Reader].res.response = ""
        /\ req[Reader].written # {}
        /\ \A rec \in req[Reader].written :
               /\ Len(rec.history) >= 1
               /\ rec.history[Len(rec.history)].role = "model"
               /\ rec.history[Len(rec.history)].text = ""

\* C27: within a request, findOne, the backend call and save follow one
\* another: no backend call and no save while findOne is pending or after it
\* failed, no save while the stream is pending or after it failed, and a 200
\* response only after the save has written the session.
C27_AwaitsInOrder ==
    \A r \in Slots :
        LET q == req[r] IN
        /\ q.pc = "findOne" => (q.startChats = 0 /\ q.sends = 0 /\ q.saves = 0)
        /\ q.failedAt = "findOne" => (q.sends = 0 /\ q.saves = 0)
        /\ q.sends = 1 => (q.findOnes = 1 /\ q.pc \in {"sendMessageStream", "save", "done", "hung"})
        /\ q.pc = "sendMessageStream" => (q.saves = 0 /\ q.written = {} /\ q.res = NoResponse)
        /\ q.failedAt = "sendMessageStream" => (q.saves = 0 /\ q.written = {})
        /\ q.saves = 1 => (q.findOnes = 1 /\ q.pc \in {"save", "done", "hung"})
        /\ q.pc = "save" => (q.written = {} /\ q.res = NoResponse)
        /\ q.res.status = 200 => (q.pc = "done" /\ q.saves = 1 /\ q.written # {})

\* C27, witness: a request that made the three calls has been answered 200
C27_AllThreeAwaited ==
    \E r \in Slots :
        Succeeded(r) /\ req[r].findOnes = 1 /\ req[r].sends = 1 /\ req[r].saves = 1

\* C28: the formatter maps a history of n turns to n entries in the same
\* order, entry i with the role and the text of turn i, and the history it
\* was given is as it was.
C28_FormatterKeepsTurns ==
    req[Reader].pc = "formatted" =>
        LET history == req[Reader].found.history
            formatted == req[Reader].context
        IN  /\ Len(formatted) = Len(history)
            /\ \A i \in 1..Len(history) :
                   /\ formatted[i].role = history[i].role
                   /\ formatted[i].parts = <<[text |-> history[i].text]>>
            /\ req[Reader].chatSession.history = history
            /\ \A rec \in db : rec.history = history

\* C28, witness: a history of MaxTurns turns, with both roles and with a turn
\* without text, has been formatted
C28_LongHistoryFormatted ==
    /\ req[Reader].pc = "formatted"
    /\ Len(req[Reader].found.history) = MaxTurns
    /\ \E i, j, k \in 1..MaxTurns :
           /\ req[Reader].found.history[i].role = "user"
           /\ req[Reader].found.history[j].role = "model"
           /\ req[Reader].found.history[k].text = ""

\* C29: a request makes at most one findOne call, at most one
\* sendMessageStream call and at most one save call, and a request one of
\* whose calls failed makes no further call: it ends.
C29_NoRetry ==
    \A r \in Slots :
        /\ req[r].findOnes <= 1
        /\ req[r].startChats <= 1
        /\ req[r].sends <= 1
        /\ req[r].saves <= 1
        /\ req[r].failedAt # "none" => req[r].pc \in {"done", "hung"}

\* C29, witness: a request whose backend call failed and a request whose
\* save failed have both been answered
C29_FailuresAnswered ==
    \E r1, r2 \in Slots :
        /\ Answered(r1) /\ req[r1].failedAt = "sendMessageStream" /\ req[r1].sends = 1
        /\ Answered(r2) /\ req[r2].failedAt = "save" /\ req[r2].saves = 1

\* A turn with a role of the two, a text and a timestamp
WellFormedTurn(turn) ==
    /\ turn.role \in {"user", "model"}
    /\ turn.text \notin {Undefined, Null}
    /\ turn.timestamp \notin {Undefined, Null}

\* C30: every turn of every stored history and of every history returned with
\* 200 has the role user or model, a text and a timestamp.
C30_TurnsWellFormed ==
    /\ \A rec \in db : \A i \in 1..Len(rec.history) : WellFormedTurn(rec.history[i])
    /\ \A r \in Slots :
           Succeeded(r) =>
               \A i \in 1..Len(req[r].res.history) : WellFormedTurn(req[r].res.history[i])

\* C31: every request received is eventually answered, whatever value the
\* backend throws.
C31_EveryRequestAnswered ==
    (req[Reader].pc # "idle") ~> (req[Reader].pc = "done" /\ req[Reader].res # NoResponse)

\* The records of the collection that belong to other sessions than sid
OtherSessions(coll, sid) == {rec \in coll : rec.sessionId # sid}

\* C32: a step of a request for session A leaves the stored records of every
\* other session as they were, and when it answers 200 every turn of the
\* history it returns is a turn of the stored record of session A.
C32_SessionsIsolated ==
    [][\A r \in Slots :
           (req[r].pc # "idle" /\ req'[r] # req[r]) =>
               /\ OtherSessions(db', req[r].body.sessionId) = OtherSessions(db, req[r].body.sessionId)
               /\ req'[r].res.status = 200 =>
                     \E rec \in db' :
                         /\ rec.sessionId = req[r].body.sessionId
                         /\ \A i \in 1..Len(req'[r].res.history) :
                                \E j \in 1..Len(rec.history) : rec.history[j] = req'[r].res.history[i]]_vars

\* C32, witness: a request for session s2 has been answered 200 while a
\* request for session s1 is between its findOne and its save, and both
\* sessions are stored
C32_TwoSessionsInterleaved ==
    \E r1, r2 \in Slots :
        /\ Succeeded(r2) /\ req[r2].body.sessionId = "s2"
        /\ req[r1].pc \in {"sendMessageStream", "save"} /\ req[r1].body.sessionId = "s1"
        /\ \E a, b \in db : a.sessionId = "s1" /\ b.sessionId = "s2"

\* The job title the system directive of startChat is written with: the one
\* of the request body
systemInstruction(b) == b.jobTitle

\* C33: when a request that called the backend has been answered 200, the
\* job title of the system directive it sent is the job title of the stored
\* record its save left.
C33_DirectiveJobTitleStored ==
    \A r \in Slots :
        (Succeeded(r) /\ req[r].startChats > 0) =>
            \A rec \in req[r].written : rec.jobTitle = systemInstruction(req[r].body)

\* The (role, text) pairs of a history, in order
Exchanges(h) == [i \in 1..Len(h) |-> <<h[i].role, h[i].text>>]

\* C34: a step that answers a request with 200, the session not written
\* since the request's findOne, leaves the stored history of the session equal
\* to the history the request loaded followed by the message it sent and the
\* reply it accumulated; a step that answers with 400 or 500 leaves the
\* collection as it was.
C34_HistoryIsSuccessfulExchanges ==
    [][\A r \in Slots :
           LET q == req'[r]
               sid == q.body.sessionId
               prior == {rec \in db : rec.sessionId = sid}
               loaded == IF q.found = NullDoc THEN {} ELSE {Stored(q.found)}
               base == IF q.found = NullDoc THEN <<>> ELSE q.found.history
           IN  (req[r].pc \notin {"done", "hung"} /\ q.pc \in {"done", "hung"}) =>
                   IF q.res.status = 200
                   THEN prior = loaded =>
                            \E rec \in db' :
                                /\ rec.sessionId = sid
                                /\ Exchanges(rec.history) =
                                       Exchanges(base) \o <<<<"user", q.message>>, <<"model", q.reply>>>>
                   ELSE db' = db]_vars

====
